---- MODULE Spec2Model ----
(***************************************************************************)
(* terraform_ci: helper functions to run terraform in CI.                  *)
(*                                                                         *)
(* A model of src/terraform_ci/__init__.py.  Python text (str) is a TLA+   *)
(* string; Python values whose type the code depends on (None, int, str)   *)
(* are tagged records; a call ends either in a returned value or in a      *)
(* raised exception, and both are outcomes of the model.                   *)
(***************************************************************************)
EXTENDS Integers, Sequences, FiniteSets, TLC

VARIABLES
    output,        \* parse_plan: the argument
    parsed,        \* parse_plan: the outcome of the call, or Pending
    branch,        \* get_action: the arguments
    pull_request,
    action,        \* get_action: the outcome of the call, or Pending
    cmd,           \* execute: the command list handed to Popen
    returncode,    \* execute: what the child process produced
    cout,
    cerr,
    job,           \* run_job: the outcome of the call, or Pending
    config,        \* setup_environment: the file at config_path
    environ,       \* os.environ
    environ_before,\* os.environ when setup_environment was entered
    setup,         \* setup_environment: the outcome of the call, or Pending
    status,        \* render_comment: the argument (an ordered dict)
    comment        \* render_comment: the outcome of the call, or Pending

vars == <<output, parsed, branch, pull_request, action, cmd, returncode, cout,
          cerr, job, config, environ, environ_before, setup, status, comment>>

-----------------------------------------------------------------------------
(* Python values and call outcomes                                         *)

None == [type |-> "NoneType"]
PyInt(n) == [type |-> "int", val |-> n]
PyStr(s) == [type |-> "str", val |-> s]

Pending == [kind |-> "pending"]
Return(v) == [kind |-> "return", value |-> v]
Raise(e) == [kind |-> "raise", exc |-> e]

-----------------------------------------------------------------------------
(* str primitives                                                          *)

CharAt(s, i) == SubSeq(s, i, i)

Digits == <<"0", "1", "2", "3", "4", "5", "6", "7", "8", "9">>

IsDigit(c) == \E d \in 1..10 : Digits[d] = c

DigitVal(c) == (CHOOSE d \in 1..10 : Digits[d] = c) - 1

\* str.startswith(prefix)
startswith(s, prefix) ==
    /\ Len(s) >= Len(prefix)
    /\ SubSeq(s, 1, Len(prefix)) = prefix

\* The characters str.split() (no separator) treats as whitespace.
IsSpace(c) == c \in {" ", "\t", "\n", "\r"}

Min(S) == CHOOSE x \in S : \A y \in S : x <= y

\* str.split(): the maximal runs of non-whitespace characters, in order.
\* Each step takes the next run: from the first non-whitespace character at
\* or after i up to the whitespace character that ends it.
RECURSIVE SplitFrom(_, _)
SplitFrom(s, i) ==
    LET starts == {j \in i..Len(s) : ~IsSpace(CharAt(s, j))}
        start == Min(starts)
        stops == {j \in start..Len(s) : IsSpace(CharAt(s, j))}
        stop == IF stops = {} THEN Len(s) + 1 ELSE Min(stops)
    IN  IF starts = {}
        THEN <<>>
        ELSE <<SubSeq(s, start, stop - 1)>> \o SplitFrom(s, stop)

split(s) == SplitFrom(s, 1)

\* str.splitlines(): breaks at "\n", "\r" and "\r\n" (one break); the line
\* breaks are dropped and a text ending in a break has no last empty line.
\* Each step takes the line from i up to the next break.
RECURSIVE SplitLinesFrom(_, _)
SplitLinesFrom(s, i) ==
    LET breaks == {j \in i..Len(s) : CharAt(s, j) \in {"\n", "\r"}}
        at == Min(breaks)
        next == IF CharAt(s, at) = "\r" /\ at < Len(s) /\ CharAt(s, at + 1) = "\n"
                THEN at + 2
                ELSE at + 1
    IN  IF i > Len(s)
        THEN <<>>
        ELSE IF breaks = {}
             THEN <<SubSeq(s, i, Len(s))>>
             ELSE <<SubSeq(s, i, at - 1)>> \o SplitLinesFrom(s, next)

splitlines(s) == SplitLinesFrom(s, 1)

\* The literals int(str) accepts in base 10: an optional sign, then digits
\* that single underscores may separate.
Unsigned(tok) ==
    IF Len(tok) > 0 /\ CharAt(tok, 1) \in {"+", "-"} THEN Tail(tok) ELSE tok

IsIntLiteral(tok) ==
    LET body == Unsigned(tok)
    IN  /\ Len(body) > 0
        /\ IsDigit(CharAt(body, 1))
        /\ IsDigit(CharAt(body, Len(body)))
        /\ \A i \in 1..Len(body) :
              \/ IsDigit(CharAt(body, i))
              \/ /\ CharAt(body, i) = "_"
                 /\ i > 1
                 /\ CharAt(body, i - 1) # "_"

RECURSIVE Magnitude(_, _, _)
Magnitude(body, i, n) ==
    IF i > Len(body)
    THEN n
    ELSE IF CharAt(body, i) = "_"
         THEN Magnitude(body, i + 1, n)
         ELSE Magnitude(body, i + 1, 10 * n + DigitVal(CharAt(body, i)))

\* int(tok): the value, or ValueError for anything that is no literal.
int(tok) ==
    IF ~IsIntLiteral(tok)
    THEN Raise("ValueError")
    ELSE LET n == Magnitude(Unsigned(tok), 1, 0)
         IN  Return(IF CharAt(tok, 1) = "-" THEN 0 - n ELSE n)

\* str(n) and "%d" % n of an int.
RECURSIVE IntToStr(_)
IntToStr(n) ==
    IF n < 0
    THEN "-" \o IntToStr(0 - n)
    ELSE IF n < 10
         THEN Digits[n + 1]
         ELSE IntToStr(n \div 10) \o Digits[(n % 10) + 1]

-----------------------------------------------------------------------------
(* parse_plan                                                              *)

NoChanges == "No changes. Infrastructure is up-to-date."

\* split_line[i] of the source (0-based), then int() of it: IndexError when
\* the line has too few tokens, ValueError when the token is no integer.
IntAt(split_line, i) ==
    IF i + 1 > Len(split_line)
    THEN Raise("IndexError")
    ELSE int(split_line[i + 1])

\* PlanCounts with destroy read at the position of change.
PlanCountsMisplaced(line) ==
    LET split_line == split(line)
        a == IntAt(split_line, 1)
        c == IntAt(split_line, 4)
        d == IntAt(split_line, 4)
    IN  IF a.kind = "raise" THEN a
        ELSE IF c.kind = "raise" THEN c
        ELSE IF d.kind = "raise" THEN d
        ELSE Return(<<PyInt(a.value), PyInt(c.value), PyInt(d.value)>>)

\* The body of the for loop for a line that starts with "Plan: ": the three
\* assignments in order, the first failing one ending the call.
PlanCounts(line) ==
    LET split_line == split(line)
        a == IntAt(split_line, 1)
        c == IntAt(split_line, 4)
        d == IntAt(split_line, 7)
    IN  IF a.kind = "raise" THEN a
        ELSE IF c.kind = "raise" THEN c
        ELSE IF d.kind = "raise" THEN d
        ELSE Return(<<PyInt(a.value), PyInt(c.value), PyInt(d.value)>>)

\* The for loop over output.splitlines(), from line i on, with the values
\* add, change and destroy hold so far.
RECURSIVE ScanLines(_, _, _)
ScanLines(lines, i, counts) ==
    IF i > Len(lines)
    THEN Return(counts)
    ELSE IF startswith(lines[i], "Plan: ")
         THEN LET r == PlanCounts(lines[i])
              IN  IF r.kind = "raise" THEN r ELSE ScanLines(lines, i + 1, r.value)
         ELSE IF lines[i] = NoChanges
              THEN Return(<<PyInt(0), PyInt(0), PyInt(0)>>)
              ELSE ScanLines(lines, i + 1, counts)

\* parse_plan with no except clause.
parse_plan_uncaught(o) ==
    IF o.type = "str"
    THEN ScanLines(splitlines(o.val), 1, <<None, None, None>>)
    ELSE Raise("AttributeError")

\* parse_plan(output).  A value without splitlines (None) raises
\* AttributeError inside the try block, the only exception it catches.
parse_plan(o) ==
    LET unset == <<None, None, None>>
        body == IF o.type = "str"
                THEN ScanLines(splitlines(o.val), 1, unset)
                ELSE Raise("AttributeError")
    IN  IF body.kind = "raise" /\ body.exc = "AttributeError"
        THEN Return(unset)
        ELSE body

-----------------------------------------------------------------------------
(* get_action                                                              *)

\* get_action that does not look at pull_request.
get_action_any_build(b, pr) ==
    IF b = PyStr("master") THEN "apply" ELSE "plan"

get_action(b, pr) ==
    IF b = PyStr("master") /\ ~pr THEN "apply" ELSE "plan"

-----------------------------------------------------------------------------
(* execute and run_job                                                     *)

\* A bytes object is a tuple of bytes: an ASCII byte is written as its
\* character, the bytes 0x80 and 0xFF as "\\x80" and "\\xff".  Neither of the
\* two starts or, with no lead byte in the alphabet, continues a UTF-8
\* sequence.
IsAscii(byte) == Len(byte) = 1

\* The characters of bytes[lo..hi], joined.
RECURSIVE Concat(_, _, _)
Concat(bytes, lo, hi) ==
    IF lo > hi THEN ""
    ELSE IF lo = hi THEN bytes[lo]
    ELSE LET mid == (lo + hi) \div 2
         IN  Concat(bytes, lo, mid) \o Concat(bytes, mid + 1, hi)

\* bytes.decode('utf-8'), strict: the text, or UnicodeDecodeError.
decode(bytes) ==
    IF \A i \in 1..Len(bytes) : IsAscii(bytes[i])
    THEN Return(Concat(bytes, 1, Len(bytes)))
    ELSE Raise("UnicodeDecodeError")

\* str.encode() of an ASCII text.
encode(text) == [i \in 1..Len(text) |-> CharAt(text, i)]

\* The command list run_job hands to execute.
JobCommand(path, act) == <<"make", "-C", path, act>>

\* run_job once execute has returned (rc, out, err): the status record,
\* unless decoding or parsing the captured stdout raises.
run_job(rc, out, err) ==
    LET text == decode(out)
        parse_tree == parse_plan(PyStr(text.value))
    IN  IF text.kind = "raise" THEN text
        ELSE IF parse_tree.kind = "raise" THEN parse_tree
        ELSE Return([success |-> rc = 0,
                     stderr |-> err,
                     stdout |-> out,
                     add |-> parse_tree.value[1],
                     change |-> parse_tree.value[2],
                     destroy |-> parse_tree.value[3]])

-----------------------------------------------------------------------------
(* setup_environment                                                       *)

LowerCase == "abcdefghijklmnopqrstuvwxyz"
UpperCase == "ABCDEFGHIJKLMNOPQRSTUVWXYZ"

UpperChar(c) ==
    IF \E i \in 1..Len(LowerCase) : CharAt(LowerCase, i) = c
    THEN CharAt(UpperCase, CHOOSE i \in 1..Len(LowerCase) : CharAt(LowerCase, i) = c)
    ELSE c

\* str.upper()
RECURSIVE upper(_)
upper(s) == IF s = "" THEN "" ELSE UpperChar(Head(s)) \o upper(Tail(s))

common_variables == <<"AWS_ACCESS_KEY_ID", "AWS_SECRET_ACCESS_KEY", "GITHUB_TOKEN">>

\* The prefixed key without its VAR part.
PrefixedKeyShort(variable) == "TF_" \o upper(variable)

\* 'TF_VAR_{var}'.format(var=variable.upper())
PrefixedKey(variable) == "TF_VAR_" \o upper(variable)

\* d[key] = value on a dict
SetItem(d, key, value) ==
    [k \in DOMAIN d \cup {key} |-> IF k = key THEN value ELSE d[k]]

\* The first loop: each allow-listed variable is set from its prefixed key;
\* the KeyError of a missing key is caught and the variable skipped.
RECURSIVE Promote(_, _, _)
Promote(env, vars_, i) ==
    IF i > Len(common_variables)
    THEN env
    ELSE LET variable == common_variables[i]
         IN  IF PrefixedKey(variable) \in DOMAIN vars_
             THEN Promote(SetItem(env, variable, vars_[PrefixedKey(variable)]), vars_, i + 1)
             ELSE Promote(env, vars_, i + 1)

\* The second loop: every item of the file is written to the environment.
CopyAll(env, vars_) ==
    [k \in DOMAIN env \cup DOMAIN vars_ |-> IF k \in DOMAIN vars_ THEN vars_[k] ELSE env[k]]

\* The file at config_path: missing, or a JSON object of strings.
NoFile == [exists |-> FALSE]
JsonFile(d) == [exists |-> TRUE, tf_vars |-> d]

\* setup_environment: open() of a missing file raises before any write.
setup_environment(file) ==
    IF file.exists THEN Return(None) ELSE Raise("FileNotFoundError")

\* os.environ when setup_environment ends.
EnvironAfter(env, file) ==
    IF file.exists
    THEN CopyAll(Promote(env, file.tf_vars, 1), file.tf_vars)
    ELSE env

-----------------------------------------------------------------------------
(* render_comment                                                          *)

\* The argument is a dict in insertion order: a sequence of entries
\* [module |-> name, rec |-> status record] with distinct names.

Placeholder(colour) ==
    "![#" \o colour \o "](https://placehold.it/15/" \o colour \o "/000000?text=+)"

map_change ==
    [add |-> Placeholder("c5f015") \o " ",
     change |-> Placeholder("1589F0") \o " ",
     destroy |-> Placeholder("f03c15") \o " "]

Title == [add |-> "Add", change |-> "Change", destroy |-> "Destroy"]

\* The backtick of the markdown source.  It is written as an apostrophe here:
\* a string of this language cannot hold a backtick.
Tick == "'"

tag_map(success) == IF success THEN Placeholder("c5f015") ELSE Placeholder("f03c15")

\* value > 0 of the source: TypeError when the value is None.
Positive(v) ==
    IF v.type = "int" THEN Return(v.val > 0) ELSE Raise("TypeError")

\* flag that looks at the module at i alone.
flag_one_module(st, local_change, i) ==
    IF i > Len(st)
    THEN Return("")
    ELSE LET p == Positive(st[i].rec[local_change])
         IN  IF p.kind = "raise" THEN p
             ELSE IF p.value THEN Return(map_change[local_change])
             ELSE Return("")

\* flag(local_change): the first module in order decides; a None count met
\* before any positive one raises.
RECURSIVE flag(_, _, _)
flag(st, local_change, i) ==
    IF i > Len(st)
    THEN Return("")
    ELSE LET p == Positive(st[i].rec[local_change])
         IN  IF p.kind = "raise" THEN p
             ELSE IF p.value THEN Return(map_change[local_change])
             ELSE flag(st, local_change, i + 1)

\* " | ".join of the header cells, then the alignment line.
Header(st) ==
    LET a == flag(st, "add", 1)
        c == flag(st, "change", 1)
        d == flag(st, "destroy", 1)
    IN  IF a.kind = "raise" THEN a
        ELSE IF c.kind = "raise" THEN c
        ELSE IF d.kind = "raise" THEN d
        ELSE Return("Module | Success | " \o a.value \o "Add | "
                    \o c.value \o "Change | " \o d.value \o "Destroy"
                    \o "\n--- | --- | ---: | ---: | ---:\n")

\* Cell with >= for >.
CellBoldZero(v) ==
    LET p == Positive(v)
    IN  IF p.kind = "raise" THEN p
        ELSE IF v.val >= 0 THEN Return("**" \o IntToStr(v.val) \o "**")
        ELSE Return(IntToStr(v.val))

\* changes[change] as the row shows it: "**%d**" for a positive count, the
\* count itself (formatted by str.format) otherwise.
Cell(v) ==
    LET p == Positive(v)
    IN  IF p.kind = "raise" THEN p
        ELSE IF p.value THEN Return("**" \o IntToStr(v.val) \o "**")
        ELSE Return(IntToStr(v.val))

BoolStr(b) == IF b THEN "True" ELSE "False"

\* One line of the table.
Row(entry) ==
    LET a == Cell(entry.rec.add)
        c == Cell(entry.rec.change)
        d == Cell(entry.rec.destroy)
    IN  IF a.kind = "raise" THEN a
        ELSE IF c.kind = "raise" THEN c
        ELSE IF d.kind = "raise" THEN d
        ELSE Return("**" \o entry.module \o "** | " \o tag_map(entry.rec.success)
                    \o " " \o Tick \o BoolStr(entry.rec.success) \o Tick \o " | "
                    \o a.value \o " | " \o c.value \o " | " \o d.value \o "\n")

RECURSIVE Rows(_, _)
Rows(st, i) ==
    IF i > Len(st)
    THEN Return("")
    ELSE LET r == Row(st[i])
             rest == Rows(st, i + 1)
         IN  IF r.kind = "raise" THEN r
             ELSE IF rest.kind = "raise" THEN rest
             ELSE Return(r.value \o rest.value)

\* A captured stream as the section shows it: bytes are decoded, an empty
\* stream gives the placeholder text.
Fenced(bytes) ==
    LET text == decode(bytes)
    IN  IF text.kind = "raise" THEN text
        ELSE IF text.value = "" THEN Return("_no output_")
        ELSE Return(Tick \o Tick \o Tick \o text.value \o Tick \o Tick \o Tick)

Section(entry) ==
    LET o == Fenced(entry.rec.stdout)
        e == Fenced(entry.rec.stderr)
    IN  IF o.kind = "raise" THEN o
        ELSE IF e.kind = "raise" THEN e
        ELSE Return("\n# **" \o entry.module \o "**\n\n## stdout\n\n" \o o.value
                    \o "\n\n## stderr\n\n" \o e.value \o "\n")

RECURSIVE Sections(_, _)
Sections(st, i) ==
    IF i > Len(st)
    THEN Return("")
    ELSE LET x == Section(st[i])
             rest == Sections(st, i + 1)
         IN  IF x.kind = "raise" THEN x
             ELSE IF rest.kind = "raise" THEN rest
             ELSE Return(x.value \o rest.value)

render_comment(st) ==
    LET h == Header(st)
        t == Rows(st, 1)
        x == Sections(st, 1)
    IN  IF h.kind = "raise" THEN h
        ELSE IF t.kind = "raise" THEN t
        ELSE IF x.kind = "raise" THEN x
        ELSE Return(h.value \o t.value \o x.value)

-----------------------------------------------------------------------------
(* Inputs of parse_plan                                                    *)

MaxCount == 1
MaxPad == 2

\* The counts a plan line is written with: every triple of small counts,
\* and two triples with counts of two and three digits.
Counts == 0..MaxCount

Triples == (Counts \X Counts \X Counts) \cup {<<4, 11, 7>>, <<10, 0, 120>>}

\* The summary line terraform prints, as the comment at line 171 shows it.
PlanLine(x, y, z) ==
    "Plan: " \o IntToStr(x) \o " to add, " \o IntToStr(y) \o " to change, "
    \o IntToStr(z) \o " to destroy."

WellFormed == {PlanLine(t[1], t[2], t[3]) : t \in Triples}

\* Lines that start with "Plan: " and are no summary line.  The last three
\* have an integer literal at each of the positions 1, 4 and 7.
Malformed ==
    {"Plan: ",
     "Plan: 1",
     "Plan: many to add, 0 to change, 0 to destroy.",
     "Plan: 1 to add",
     "Plan: 1 to add, 2",
     "Plan: 1 to add, no to change, 0 to destroy.",
     "Plan: 1 to add, 2 to change",
     "Plan: 1 to add, 2 to change, 3.5 to destroy.",
     "Plan: 1 to add, 2 to change, x",
     "Plan: 1 to add, 2 to change, 3",
     "Plan: +1 to add, 1_0 to change, -2 to destroy.",
     "Plan: 1 2 3 4 5 6 7 8"}

\* Lines that neither start with "Plan: " nor equal the no-changes line.
Other ==
    {"",
     "Refreshing Terraform state in-memory prior to plan...",
     "Plan:",
     "  Plan: 4 to add, 11 to change, 7 to destroy.",
     "plan: 4 to add, 11 to change, 7 to destroy.",
     "No changes. Infrastructure is up-to-date. ",
     "No changes."}

Lines == WellFormed \cup Malformed \cup Other \cup {NoChanges}

\* The lines put before and after the line in the middle, MaxPad of them
\* at most.
PadLines ==
    {"Terraform will perform the following actions:", NoChanges, PlanLine(4, 11, 7)}

Pads == UNION {[1..n -> PadLines] : n \in 0..MaxPad}

\* How the lines are ended: <<the break between lines, the end of the text>>.
LineEnds == {<<"\n", "">>, <<"\n", "\n">>, <<"\r\n", "">>}

RECURSIVE Join(_, _, _)
Join(ls, eol, i) ==
    IF i > Len(ls) THEN ""
    ELSE IF i = Len(ls) THEN ls[i]
    ELSE ls[i] \o eol \o Join(ls, eol, i + 1)

\* <<the lines before, the lines after>>
PadPairs == {p \in Pads \X Pads : Len(p[1]) + Len(p[2]) <= MaxPad}

Texts ==
    {Join(p[1] \o mid \o p[2], e[1], 1) \o e[2] :
        p \in PadPairs,
        mid \in {<<l>> : l \in Lines} \cup {<<>>},
        e \in LineEnds}

Outputs == {PyStr(t) : t \in Texts} \cup {None}

-----------------------------------------------------------------------------
(* The calls                                                               *)

ParseIdle == output = None /\ parsed = Pending
ActionIdle == branch = None /\ pull_request = FALSE /\ action = Pending
JobIdle == cmd = <<>> /\ returncode = 0 /\ cout = <<>> /\ cerr = <<>> /\ job = Pending
SetupIdle == config = NoFile /\ environ = <<>> /\ environ_before = <<>> /\ setup = Pending
RenderIdle == status = <<>> /\ comment = Pending

parse_vars == <<output, parsed>>
action_vars == <<branch, pull_request, action>>
job_vars == <<cmd, returncode, cout, cerr, job>>
setup_vars == <<config, environ, environ_before, setup>>
render_vars == <<status, comment>>

InitParsePlan ==
    /\ output \in Outputs
    /\ parsed = Pending
    /\ ActionIdle /\ JobIdle /\ SetupIdle /\ RenderIdle

ParsePlan ==
    /\ parsed = Pending
    /\ parsed' = parse_plan(output)
    /\ UNCHANGED <<output, action_vars, job_vars, setup_vars, render_vars>>

SpecParsePlan == InitParsePlan /\ [][ParsePlan]_vars

-----------------------------------------------------------------------------
(* get_action called on a branch and a pull-request flag                   *)

BranchNames ==
    {pre \o name :
        pre \in {"", "origin/", "refs/heads/", "feature/", "release/"},
        name \in {"", "master", "Master", "MASTER", "master ", " master",
                  "main", "develop"}}

Branches == {PyStr(n) : n \in BranchNames} \cup {None}

InitGetAction ==
    /\ branch \in Branches
    /\ pull_request \in BOOLEAN
    /\ action = Pending
    /\ ParseIdle /\ JobIdle /\ SetupIdle /\ RenderIdle

GetAction ==
    /\ action = Pending
    /\ action' = Return(get_action(branch, pull_request))
    /\ UNCHANGED <<branch, pull_request, parse_vars, job_vars, setup_vars, render_vars>>

SpecGetAction == InitGetAction /\ [][GetAction]_vars

-----------------------------------------------------------------------------
(* run_job on what the child process produced                              *)

Paths == {"github", "prod/web_app"}
Actions == {"plan", "apply"}

\* Exit codes: success, errors of make, a child killed by SIGKILL.
ReturnCodes == {0, 1, 2, -9}

StdoutTexts ==
    {"",
     NoChanges \o "\n",
     "Refreshing...\n" \o PlanLine(4, 11, 7) \o "\n",
     "Error: No configuration files\n",
     "Plan: 1 to add\n"}

\* Captured stdout: texts as UTF-8, and output that is no UTF-8.
Stdouts ==
    {encode(t) : t \in StdoutTexts}
    \cup {<<"\\xff">>, encode(PlanLine(1, 0, 0)) \o <<"\\x80", "\n">>}

Stderrs == {<<>>, encode("make: *** [plan] Error 1\n"), <<"\\xff">>}

InitRunJob ==
    /\ cmd = <<>>
    /\ returncode \in ReturnCodes
    /\ cout \in Stdouts
    /\ cerr \in Stderrs
    /\ job = Pending
    /\ ParseIdle /\ ActionIdle /\ SetupIdle /\ RenderIdle

\* run_job(path, action): execute spawns the command and returns what the
\* child produced; run_job builds the status record from it.
RunJob ==
    /\ job = Pending
    /\ \E path \in Paths, act \in Actions : cmd' = JobCommand(path, act)
    /\ job' = run_job(returncode, cout, cerr)
    /\ UNCHANGED <<returncode, cout, cerr, parse_vars, action_vars, setup_vars, render_vars>>

SpecRunJob == InitRunJob /\ [][RunJob]_vars


-----------------------------------------------------------------------------
(* setup_environment on a variables file and an environment                *)

MaxVars == 3

FileKeys ==
    {"TF_VAR_AWS_ACCESS_KEY_ID", "TF_VAR_AWS_SECRET_ACCESS_KEY", "TF_VAR_GITHUB_TOKEN",
     "AWS_ACCESS_KEY_ID", "GITHUB_TOKEN", "TF_VAR_region", "tf_var_github_token"}

FileValues == {"from-file-1", "from-file-2"}

\* The JSON objects of at most MaxVars members.
Dicts ==
    UNION {[d -> FileValues] : d \in {x \in SUBSET FileKeys : Cardinality(x) <= MaxVars}}

ConfigFiles == {JsonFile(d) : d \in Dicts} \cup {NoFile}

\* The environment the process starts with.
Environs ==
    UNION {[d -> {"inherited"}] : d \in SUBSET {"AWS_ACCESS_KEY_ID", "GITHUB_TOKEN", "PATH"}}

InitSetupEnvironment ==
    /\ config \in ConfigFiles
    /\ environ \in Environs
    /\ environ_before = environ
    /\ setup = Pending
    /\ ParseIdle /\ ActionIdle /\ JobIdle /\ RenderIdle

SetupEnvironment ==
    /\ setup = Pending
    /\ setup' = setup_environment(config)
    /\ environ' = EnvironAfter(environ, config)
    /\ UNCHANGED <<config, environ_before, parse_vars, action_vars, job_vars, render_vars>>

SpecSetupEnvironment == InitSetupEnvironment /\ [][SetupEnvironment]_vars

-----------------------------------------------------------------------------
(* render_comment on a status mapping                                      *)

MaxRenderCount == 1

\* The values of add, change and destroy: what parse_plan gives run_job.
CountValues == {None, PyInt(12)} \cup {PyInt(n) : n \in 0..MaxRenderCount}

\* <<success, stdout, stderr>> of a job that went well and of one that did not.
Captured ==
    {<<TRUE, <<>>, <<>>>>,
     <<FALSE, encode("Error: no plan\n"), encode("make: *** Error 1\n")>>}

Record(a, c, d, cap) ==
    [add |-> a, change |-> c, destroy |-> d,
     success |-> cap[1], stdout |-> cap[2], stderr |-> cap[3]]

Records ==
    {Record(a, c, d, cap) :
        a \in CountValues, c \in CountValues, d \in CountValues, cap \in Captured}

\* The records of the module rendered beside the one that varies.
Companions ==
    {Record(PyInt(0), PyInt(0), PyInt(0), <<TRUE, <<>>, <<>>>>),
     Record(PyInt(0), PyInt(12), PyInt(0), <<TRUE, encode(NoChanges), <<>>>>),
     Record(PyInt(3), PyInt(0), PyInt(1), <<FALSE, <<>>, encode("make: *** Error 1\n")>>),
     Record(None, None, None, <<FALSE, <<>>, <<>>>>),
     Record(PyInt(0), PyInt(0), PyInt(0), <<FALSE, <<>>, <<"\\xff">>>>)}

Entry(name, rec) == [module |-> name, rec |-> rec]

Statuses ==
    {<<Entry("github", r)>> : r \in Records}
    \cup {<<Entry("github", r), Entry("prod/web_app", c)>> : r \in Records, c \in Companions}
    \cup {<<Entry("github", c), Entry("prod/web_app", r)>> : r \in Records, c \in Companions}

InitRenderComment ==
    /\ status \in Statuses
    /\ comment = Pending
    /\ ParseIdle /\ ActionIdle /\ JobIdle /\ SetupIdle

RenderComment ==
    /\ comment = Pending
    /\ comment' = render_comment(status)
    /\ UNCHANGED <<status, parse_vars, action_vars, job_vars, setup_vars>>

SpecRenderComment == InitRenderComment /\ [][RenderComment]_vars

-----------------------------------------------------------------------------
(* The module as a whole: any one of the functions is called               *)

Init ==
    \/ InitParsePlan
    \/ InitGetAction
    \/ InitRunJob
    \/ InitSetupEnvironment
    \/ InitRenderComment

Next ==
    \/ ParsePlan
    \/ GetAction
    \/ RunJob
    \/ SetupEnvironment
    \/ RenderComment

Spec == Init /\ [][Next]_vars

-----------------------------------------------------------------------------
(* Properties of parse_plan                                                *)

\* The lines of the argument, for a text argument.
OutputLines == IF output.type = "str" THEN splitlines(output.val) ELSE <<>>

Matching(line) == startswith(line, "Plan: ") \/ line = NoChanges

MatchingLines == {i \in 1..Len(OutputLines) : Matching(OutputLines[i])}

Unset == <<None, None, None>>
Zeros == <<PyInt(0), PyInt(0), PyInt(0)>>

\* C1: parse_plan never ends in a raised error, whatever text it is given:
\* also for a line that starts with "Plan: " and has too few tokens or a
\* token that is no integer, it returns a 3-tuple.
C1_NeverRaises ==
    parsed # Pending => parsed.kind = "return" /\ Len(parsed.value) = 3

\* C2: when the only matching line of the output is the well-formed line
\* "Plan: X to add, Y to change, Z to destroy.", parse_plan returns (X, Y, Z)
\* as integers, whatever non-matching lines surround it.
C2_WellFormedLine ==
    (parsed # Pending /\ Cardinality(MatchingLines) = 1) =>
        \A i \in MatchingLines : \A t \in Triples :
            OutputLines[i] = PlanLine(t[1], t[2], t[3]) =>
                parsed = Return(<<PyInt(t[1]), PyInt(t[2]), PyInt(t[3])>>)

C2_Witness ==
    /\ parsed = Return(<<PyInt(10), PyInt(0), PyInt(120)>>)
    /\ Len(OutputLines) = 3
    /\ MatchingLines = {2}
    /\ OutputLines[2] = PlanLine(10, 0, 120)

\* C3: when some line of the output equals the no-changes line, parse_plan
\* returns (0, 0, 0), whatever comes before or after that line.
C3_NoChangesGivesZeros ==
    (parsed # Pending /\ \E i \in 1..Len(OutputLines) : OutputLines[i] = NoChanges) =>
        parsed = Return(Zeros)

\* C4: when no line of the output starts with "Plan: " and none equals the
\* no-changes line (the empty text and None included), parse_plan returns
\* (None, None, None).
C4_NoPattern ==
    (parsed # Pending /\ MatchingLines = {}) => parsed = Return(Unset)

C4_Witness ==
    /\ parsed = Return(Unset)
    /\ Len(OutputLines) = 3
    /\ MatchingLines = {}
    /\ OutputLines[2] = "  Plan: 4 to add, 11 to change, 7 to destroy."

-----------------------------------------------------------------------------
(* Properties of get_action                                                *)

\* C5: get_action returns "apply" exactly when the branch is "master" and
\* pull_request is false, and "plan" in every other case; it returns nothing
\* else.
C5_ApplyOnlyOnMaster ==
    action # Pending =>
        /\ action \in {Return("apply"), Return("plan")}
        /\ action = Return("apply") <=>
              (branch.type = "str" /\ branch.val = "master" /\ pull_request = FALSE)

C5_Witness ==
    /\ action = Return("plan")
    /\ branch = PyStr("master")
    /\ pull_request = TRUE

-----------------------------------------------------------------------------
(* Properties of run_job                                                   *)

\* C6: run_job never ends in a raised error: for every exit code and every
\* captured stdout and stderr it returns a status record whose success field
\* says whether the exit code was 0 and whose counts are what parse_plan
\* returns for the decoded stdout.
C6_RunJobNeverRaises ==
    job # Pending =>
        /\ job.kind = "return"
        /\ job.value.success = (returncode = 0)
        /\ <<job.value.add, job.value.change, job.value.destroy>>
              = parse_plan(PyStr(decode(cout).value)).value

-----------------------------------------------------------------------------
(* Properties of setup_environment                                         *)

AllowList == {"AWS_ACCESS_KEY_ID", "AWS_SECRET_ACCESS_KEY", "GITHUB_TOKEN"}

\* The environment holds value under key.
Holds(env, key, value) == key \in DOMAIN env /\ env[key] = value

\* The entry of key is the same in both environments.
SameEntry(env1, env2, key) ==
    /\ key \in DOMAIN env1 <=> key \in DOMAIN env2
    /\ key \in DOMAIN env1 => env1[key] = env2[key]

\* Every key of the file is in the environment with the file's value.
CopiedVerbatim ==
    \A k \in DOMAIN config.tf_vars : Holds(environ, k, config.tf_vars[k])

\* The allow-listed variable v is promoted from its prefixed key when the
\* file has it, and left as it was when the file has not.
Promoted(v) ==
    IF ("TF_VAR_" \o v) \in DOMAIN config.tf_vars
    THEN Holds(environ, v, config.tf_vars["TF_VAR_" \o v])
    ELSE SameEntry(environ, environ_before, v)

\* C7 as stated: after setup_environment has read the file, the environment
\* holds every key of the file verbatim, and every allow-listed variable is
\* promoted from its prefixed key or, the key missing, left as it was.
C7_AsStated ==
    setup = Return(None) => CopiedVerbatim /\ \A v \in AllowList : Promoted(v)

\* C7 amended: the same, the promotion and the untouched entry being claimed
\* only of the allow-listed variables that are not keys of the file
\* themselves; a variable that is a key of the file holds the file's value
\* for that key.
C7_Amended ==
    setup = Return(None) =>
        /\ CopiedVerbatim
        /\ \A v \in AllowList : v \notin DOMAIN config.tf_vars => Promoted(v)

C7_Witness ==
    /\ setup = Return(None)
    /\ DOMAIN config.tf_vars = {"TF_VAR_GITHUB_TOKEN", "TF_VAR_region"}
    /\ Holds(environ_before, "GITHUB_TOKEN", "inherited")
    /\ Holds(environ_before, "AWS_ACCESS_KEY_ID", "inherited")
    /\ Holds(environ, "GITHUB_TOKEN", config.tf_vars["TF_VAR_GITHUB_TOKEN"])
    /\ Holds(environ, "AWS_ACCESS_KEY_ID", "inherited")

-----------------------------------------------------------------------------
(* Properties of render_comment                                            *)

\* The k-th smallest element of a set of numbers.
Kth(S, k) == CHOOSE x \in S : Cardinality({y \in S : y < x}) = k - 1

\* The pieces of s between the occurrences of sep.
SplitOn(s, sep) ==
    LET at == {j \in 1..(Len(s) - Len(sep) + 1) : SubSeq(s, j, j + Len(sep) - 1) = sep}
        n == Cardinality(at)
    IN  [k \in 1..(n + 1) |->
            SubSeq(s,
                   IF k = 1 THEN 1 ELSE Kth(at, k - 1) + Len(sep),
                   IF k = n + 1 THEN Len(s) ELSE Kth(at, k) - 1)]

Contains(s, sub) ==
    \E j \in 1..(Len(s) - Len(sub) + 1) : SubSeq(s, j, j + Len(sub) - 1) = sub

\* The table of a rendered comment: the header is line 1, the row of the
\* i-th module line 2 + i; the cells of a line are split at " | ".
HeaderLine == 1
RowLine(i) == 2 + i
Column == [add |-> 3, change |-> 4, destroy |-> 5]

AllClean ==
    \A i \in 1..Len(status) :
        /\ status[i].rec.success
        /\ \A c \in {"add", "change", "destroy"} : status[i].rec[c] = PyInt(0)

TableLines ==
    LET lines == SplitOn(comment.value, "\n")
    IN  {lines[k] : k \in 1..RowLine(Len(status))}

\* C9 as stated: a mapping where every module has zero counts and succeeded
\* is rendered as a table with no colored marker and no bolded number.
C9_AsStated ==
    (comment # Pending /\ comment.kind = "return" /\ AllClean) =>
        \A line \in TableLines :
            /\ ~Contains(line, "![#")
            /\ \A d \in 1..10 : ~Contains(line, "**" \o Digits[d])

\* C9 amended: such a table has no marker in its header and no bolded count;
\* the one colored icon of a row is the green tag of its Success cell.
C9_Amended ==
    (comment # Pending /\ comment.kind = "return" /\ AllClean) =>
        LET lines == SplitOn(comment.value, "\n")
        IN  /\ lines[HeaderLine] = "Module | Success | Add | Change | Destroy"
            /\ \A i \in 1..Len(status) :
                  LET cells == SplitOn(lines[RowLine(i)], " | ")
                  IN  /\ Len(cells) = 5
                      /\ cells[1] = "**" \o status[i].module \o "**"
                      /\ cells[2] = Placeholder("c5f015") \o " " \o Tick \o "True" \o Tick
                      /\ \A c \in 3..5 : cells[c] = "0"

C9_Witness ==
    /\ comment # Pending
    /\ comment.kind = "return"
    /\ Len(status) = 2
    /\ AllClean

\* C10: render_comment returns a comment for every status mapping whose
\* counts are non-negative integers or None, the records run_job produces
\* for a job whose output could not be parsed included.
C10_RenderReturns ==
    comment # Pending => comment.kind = "return"

=============================================================================
